---- MODULE Spec2Model ----
(***************************************************************************)
(* GitLasso: a state-machine model of the process orchestrator             *)
(* (src/parallel_run.rs), the serial runner (src/serial_run.rs), the       *)
(* interactive selector (src/command/context.rs), the table layout engine  *)
(* (src/tui/table.rs) and the repository list they run on (src/config.rs). *)
(***************************************************************************)
EXTENDS Integers, Sequences, FiniteSets, TLC

(***************************************************************************)
(* Bounds of the model.                                                    *)
(***************************************************************************)
\* longest repository list read from the repositories file
MaxRepos == 2
\* largest terminal height returned by size()
MaxHeight == 4

\* capacity of a child's pipe, in chunks
PipeCap == 1
\* most chunks a serial_run child writes before it exits
MaxWrites == 3

\* longest repository list the selector is opened on
MaxEntries == 4
\* largest terminal height size() returns to context_ui
MaxTermRows == 7

\* most rows of a table, most cells of a table (all rows together)
MaxRows == 2
MaxCells == 3
\* most spans of a cell, most codepoints of a table (all cells together)
MaxSpans == 2
MaxChars == 5
\* largest target width of a table
MaxWidth == 6

\* longest repository list register and unregister are started on
MaxRegistered == 3

\* SPINNER_CHARS.len()
SpinnerLen == 10

\* registered paths; the loader keeps every line, so a path may repeat
Paths == {"p", "q"}

\* the paths find_git_repos can discover
RegPaths == {"p", "q", "r"}

\* captured standard output / standard error of a child
StdoutTexts == {"", "out"}
StderrTexts == {"", "boom"}
\* err.to_string() of a failed Command::output()
SpawnErrText == "No such file or directory"
ExitCodes == {0, 1}

VARIABLES
    repositories,   \* config.repositories: sequence of [path, visible]
    cmd,            \* the runner command::exec::run hands the config to
    height,         \* `height` of parallel_run, live from line 77 to line 82
    pcC,            \* where the main thread of parallel_run is
    results,        \* ProcessStatuses: path -> ProcessStatus
    spawned,        \* number of worker threads started by the for loop
    wpc,            \* per worker: where the thread is
    wout,           \* per worker: what Command::output() returned
    wres,           \* per worker: the local `result`
    sent,           \* per worker: the messages it has sent, in order
    chan,           \* the mpsc channel's buffer, oldest first
    senders,        \* number of live Sender handles (tx and its clones)
    rxAlive,        \* the Receiver has not been dropped
    arrived,        \* paths of the messages the consumer has stored, in order
    parErr,         \* what made parallel_run return Err: "none", "io"
    compact,        \* the `compact` flag of parallel_run
    spinner_index,  \* wait_for_results' spinner_index
    frame,          \* the progress block as last rendered
    reportIdx,      \* number of paths the report loop has gone through
    blocks,         \* framed blocks queued by the report, in order
    pcS,            \* where the main thread of serial_run is
    serErr,         \* what made serial_run return Err: "none", "io", "spawn"
    si,             \* index in `paths` of the serial loop's current path
    headers,        \* paths whose header serial_run has printed, in order
    attempts,       \* paths for which serial_run has called spawn(), in order
    cstate,         \* per index in `paths`: the state of its child process
    ccode,          \* per index in `paths`: the child's exit code
    script,         \* the streams the running child will still write to
    pipe,           \* per stream: chunks buffered in the child's pipe
    rdOpen,         \* per stream: the read end of the pipe is still open
    tcopy,          \* per stream: where the passthrough thread is
    pcX,            \* where context_ui / event_loop is
    event,          \* the event the last event::read() returned
    selected,       \* event_loop's `selected`, a 0-based index
    page_size,      \* context_ui's `page_size`
    rawMode,        \* the terminal is in raw input mode
    cursorHidden,   \* the terminal's cursor is hidden
    screen,         \* the page indicator and the list as last drawn
    saved,          \* what config.write() has written, if it has
    ctxErr,         \* what made context_ui return Err: "none", "io"
    spaces,         \* the run of space presses in progress and the list before it
    table,          \* the Table handed to queue_table
    pcT,            \* where queue_table is
    col_widths,     \* queue_table's col_widths
    row,            \* index in table.rows of the row being rendered
    col,            \* index in the row of the next cell to render
    pos,            \* queue_table's `pos`
    line,           \* what has been queued for the current row, cell by cell
    lines,          \* the rows queue_table has finished, in order
    tblErr,         \* how queue_table ended early: "none", "panic"
    call            \* the last add_repo / remove_repo call: its argument, the
                    \* list it was made on and what it returned

parVars == <<pcC, height, results, spawned, wpc, wout, wres, sent, chan, senders,
             rxAlive, arrived, parErr, compact, spinner_index, frame, reportIdx,
             blocks>>

serVars == <<pcS, serErr, si, headers, attempts, cstate, ccode, script, pipe,
             rdOpen, tcopy>>

selVars == <<pcX, event, selected, page_size, rawMode, cursorHidden, screen,
             saved, ctxErr, spaces>>

tblVars == <<table, pcT, col_widths, row, col, pos, line, lines, tblErr>>

vars == <<repositories, cmd, parVars, serVars, selVars, tblVars, call>>

(***************************************************************************)
(* src/config.rs                                                           *)
(***************************************************************************)
RepoConfig == [path : Paths, visible : BOOLEAN]

\* the lists config::read can return, up to MaxRepos lines
Configs == UNION {[1..n -> RepoConfig] : n \in 0..MaxRepos}

\* an active-target list that forgets the filter
visible_reposUnfiltered(repos) ==
    [i \in 1..Len(repos) |-> repos[i].path]

visible_repos(repos) ==
    LET vis == SelectSeq(repos, LAMBDA r : r.visible)
    IN  [i \in 1..Len(vis) |-> vis[i].path]

\* the lists config::read can return to register and unregister
RegConfigs ==
    UNION {[1..n -> [path : RegPaths, visible : BOOLEAN]] : n \in 0..MaxRegistered}

\* `self.repositories.iter().any(|r| r.path == repo_path)`
HasPath(repos, repo_path) ==
    \E k \in DOMAIN repos : repos[k].path = repo_path

\* an add_repo that puts the new entry first
add_repoAtFront(repos, repo_path) ==
    IF HasPath(repos, repo_path)
    THEN [repositories |-> repos, ret |-> FALSE]
    ELSE [repositories |-> <<[path |-> repo_path, visible |-> TRUE]>> \o repos,
          ret |-> TRUE]

\* Config::add_repo: the list afterwards and the value returned
add_repo(repos, repo_path) ==
    IF HasPath(repos, repo_path)
    THEN [repositories |-> repos, ret |-> FALSE]
    ELSE [repositories |-> Append(repos, [path |-> repo_path, visible |-> TRUE]),
          ret |-> TRUE]

\* Config::remove_repo: the list afterwards and the value returned
remove_repo(repos, repo_path) ==
    [repositories |-> SelectSeq(repos, LAMBDA r : r.path /= repo_path),
     ret |-> HasPath(repos, repo_path)]

NoCall == [op |-> "none", path |-> "", before |-> <<>>, ret |-> FALSE]

\* `paths` of parallel_run and of serial_run
paths == visible_repos(repositories)

(***************************************************************************)
(* src/parallel_run.rs: ProcessStatus                                      *)
(***************************************************************************)
Running == [tag |-> "Running", text |-> ""]
Finished(s) == [tag |-> "Finished", text |-> s]
Error(s) == [tag |-> "Error", text |-> s]

\* what std::process::Command::output() can return
Outcomes ==
    {[started |-> TRUE, code |-> c, stdout |-> o, stderr |-> e] :
        c \in ExitCodes, o \in StdoutTexts, e \in StderrTexts}
    \cup {[started |-> FALSE, code |-> 0, stdout |-> "", stderr |-> ""]}

NoOutcome == [started |-> FALSE, code |-> 0 - 1, stdout |-> "", stderr |-> ""]

\* a match that reports the wrong stream of a failed child
WorkerResultStdoutOnError(output) ==
    IF output.started
    THEN IF output.code = 0
         THEN Finished(output.stdout)
         ELSE Error(output.stdout)
    ELSE Error(SpawnErrText)

\* the match of lines 52-63
WorkerResult(output) ==
    IF output.started
    THEN IF output.code = 0
         THEN Finished(output.stdout)
         ELSE Error(output.stderr)
    ELSE Error(SpawnErrText)

Workers == 1..MaxRepos

\* the two piped streams of a serial_run child
Streams == {"stdout", "stderr"}

\* an insert that writes the value to every key
InsertEverywhere(map, k, v) ==
    [q \in (DOMAIN map) \cup {k} |-> v]

\* results.insert(repo_path, result)
Insert(map, k, v) ==
    [q \in (DOMAIN map) \cup {k} |-> IF q = k THEN v ELSE map[q]]

(***************************************************************************)
(* The progress renderer                                                   *)
(***************************************************************************)
Glyph(status, spin) ==
    CASE status.tag = "Finished" -> "check"
      [] status.tag = "Running" -> <<"spinner", spin>>
      [] status.tag = "Error" -> "X"

\* a renderer that goes through the entries of the map, one line each
ProgressLinesPerEntry(ps, res, spin) ==
    LET have == SelectSeq(ps, LAMBDA p : p \in DOMAIN res)
        first == SelectSeq([i \in 1..Len(have) |-> i],
                           LAMBDA i : \A j \in 1..(i - 1) : have[j] /= have[i])
    IN  [i \in 1..Len(first) |->
            [glyph |-> Glyph(res[have[first[i]]], spin), path |-> have[first[i]]]]

\* queue_update_progress: one line per path that has a status
ProgressLines(ps, res, spin) ==
    LET have == SelectSeq(ps, LAMBDA p : p \in DOMAIN res)
    IN  [i \in 1..Len(have) |->
            [glyph |-> Glyph(res[have[i]], spin), path |-> have[i]]]

\* queue_update_progress_compact: spinner and "[finished/total complete]"
CompactLine(ps, res, spin) ==
    [spinner |-> spin,
     finished |-> Cardinality({i \in 1..Len(ps) :
                     ~(ps[i] \in DOMAIN res /\ res[ps[i]] = Running)}),
     total |-> Len(ps)]

NoFrame == [mode |-> "none"]
FullFrame(ps, res, spin) == [mode |-> "full", lines |-> ProgressLines(ps, res, spin)]
CompactFrame(ps, res, spin) == [mode |-> "compact", line |-> CompactLine(ps, res, spin)]

\* the lines of a full block queued after cursor::MoveUp(up) (no MoveUp when
\* up is 0), with the cursor `from` lines below the first line of the block
\* before and `row` lines below it afterwards
Place(from, up, f) ==
    [mode |-> f.mode, lines |-> f.lines, up |-> up,
     row |-> from - up + Len(f.lines)]

\* one redraw of the progress block, in the mode chosen, over the block
\* `prev` drawn before
Render(cmp, prev, ps, res, spin) ==
    IF cmp
    THEN CompactFrame(ps, res, spin)
    ELSE Place(prev.row, Len(ps), FullFrame(ps, res, spin))

(***************************************************************************)
(* Initial state: the configuration has been read, nothing has run.        *)
(***************************************************************************)
InitPar ==
    /\ pcC = "entry"
    /\ height = 0
    /\ results = [p \in {} |-> Running]
    /\ spawned = 0
    /\ wpc = [i \in Workers |-> "unspawned"]
    /\ wout = [i \in Workers |-> NoOutcome]
    /\ wres = [i \in Workers |-> Running]
    /\ sent = [i \in Workers |-> <<>>]
    /\ chan = <<>>
    /\ senders = 0
    /\ rxAlive = FALSE
    /\ arrived = <<>>
    /\ parErr = "none"
    /\ compact = FALSE
    /\ spinner_index = 0
    /\ frame = NoFrame
    /\ reportIdx = 0
    /\ blocks = <<>>

InitSer ==
    /\ pcS = "entry"
    /\ serErr = "none"
    /\ si = 1
    /\ headers = <<>>
    /\ attempts = <<>>
    /\ cstate = [i \in Workers |-> "none"]
    /\ ccode = [i \in Workers |-> 0]
    /\ script = <<>>
    /\ pipe = [s \in Streams |-> 0]
    /\ rdOpen = [s \in Streams |-> FALSE]
    /\ tcopy = [s \in Streams |-> "unspawned"]

\* the lists the selector is opened on
Entries == UNION {[1..n -> RepoConfig] : n \in 0..MaxEntries}

NoScreen == [drawn |-> FALSE]
NoSave == [written |-> FALSE, repositories |-> <<>>]
NoSpaces == [count |-> 0, list |-> <<>>]

InitSel ==
    /\ pcX = "entry"
    /\ event = "none"
    /\ selected = 0
    /\ page_size = 0
    /\ rawMode = FALSE
    /\ cursorHidden = FALSE
    /\ screen = NoScreen
    /\ saved = NoSave
    /\ ctxErr = "none"
    /\ spaces = NoSpaces

\* a codepoint is named by the span it is in and its place in that span
Text(k, n) == [i \in 1..n |-> <<k, i>>]

\* a Cell is its spans in order; a span is its codepoints (styles left out)
CellOf(lens) == [k \in DOMAIN lens |-> Text(k, lens[k])]

\* Cell::len, lines 43-45: the codepoints of all spans
RECURSIVE CellLen(_)
CellLen(cell) ==
    IF cell = <<>> THEN 0 ELSE Len(Head(cell)) + CellLen(Tail(cell))

\* the codepoints of all cells of a row
RECURSIVE RowLen(_)
RowLen(cells) ==
    IF cells = <<>> THEN 0 ELSE CellLen(Head(cells)) + RowLen(Tail(cells))

\* the cells of at most s spans and at most c codepoints, as span lengths
RECURSIVE LensWithin(_, _)
LensWithin(s, c) ==
    IF s = 0 THEN {<<>>}
    ELSE {<<>>} \cup
         UNION {{<<n>> \o rest : rest \in LensWithin(s - 1, c - n)} : n \in 0..c}

Cells(c) == {CellOf(lens) : lens \in LensWithin(MaxSpans, c)}

\* the rows of at most k cells and at most c codepoints
RECURSIVE TableRows(_, _)
TableRows(k, c) ==
    IF k = 0 THEN {<<>>}
    ELSE {<<>>} \cup
         UNION {{<<cell>> \o rest : rest \in TableRows(k - 1, c - CellLen(cell))} :
                    cell \in Cells(c)}

\* the tables' rows: at most r rows, k cells and c codepoints in all
RECURSIVE RowSeqs(_, _, _)
RowSeqs(r, k, c) ==
    IF r = 0 THEN {<<>>}
    ELSE {<<>>} \cup
         UNION {{<<cells>> \o rest :
                    rest \in RowSeqs(r - 1, k - Len(cells), c - RowLen(cells))} :
                    cells \in TableRows(k, c)}

\* the tables of a target width among ws
Tables(ws) ==
    {[width |-> w, rows |-> rs] :
        w \in ws, rs \in RowSeqs(MaxRows, MaxCells, MaxChars)}

NoTable == [width |-> 0, rows |-> <<>>]

InitTbl ==
    /\ pcT = "entry"
    /\ col_widths = <<>>
    /\ row = 1
    /\ col = 1
    /\ pos = 0
    /\ line = <<>>
    /\ lines = <<>>
    /\ tblErr = "none"

InitReg == call = NoCall

Init ==
    /\ cmd \in {"parallel", "serial", "context", "table", "register",
                 "unregister"}
    /\ repositories \in (CASE cmd = "context" -> Entries
                           [] cmd = "table" -> {<<>>}
                           [] cmd \in {"register", "unregister"} -> RegConfigs
                           [] OTHER -> Configs)
    /\ table \in (IF cmd = "table" THEN Tables(0..MaxWidth) ELSE {NoTable})
    /\ InitPar
    /\ InitSer
    /\ InitSel
    /\ InitTbl
    /\ InitReg

(***************************************************************************)
(* parallel_run, main thread                                               *)
(***************************************************************************)
\* command::exec::run with -p: nothing registered, nothing run
ParEntry ==
    /\ pcC = "entry"
    /\ cmd = "parallel"
    /\ pcC' = IF Len(repositories) = 0 THEN "none_registered" ELSE "start"
    /\ UNCHANGED <<height, results, spawned, wpc, wout, wres, sent, chan,
                   senders, rxAlive, arrived, parErr, compact, spinner_index,
                   frame, reportIdx, blocks>>
    /\ UNCHANGED <<repositories, cmd, serVars, selVars, tblVars, call>>

\* lines 30-38: every active path starts as Running; the channel is created
ParStart ==
    /\ pcC = "start"
    /\ results' = [p \in {paths[i] : i \in 1..Len(paths)} |-> Running]
    /\ senders' = 1
    /\ rxAlive' = TRUE
    /\ pcC' = "spawn"
    /\ UNCHANGED <<height, spawned, wpc, wout, wres, sent, chan, arrived,
                   parErr, compact, spinner_index, frame, reportIdx, blocks>>
    /\ UNCHANGED <<repositories, cmd, serVars, selVars, tblVars, call>>

\* lines 41-71, one iteration: clone tx and start the thread for the next path
ParSpawn ==
    /\ pcC = "spawn"
    /\ spawned < Len(paths)
    /\ spawned' = spawned + 1
    /\ senders' = senders + 1
    /\ wpc' = [wpc EXCEPT ![spawned + 1] = "running"]
    /\ UNCHANGED <<pcC, height, results, wout, wres, sent, chan, rxAlive,
                   arrived, parErr, compact, spinner_index, frame, reportIdx,
                   blocks>>
    /\ UNCHANGED <<repositories, cmd, serVars, selVars, tblVars, call>>

\* a parallel_run that keeps its own tx alive
KeepTx(n) == n

\* line 75: drop(tx)
DropTx(n) == n - 1

\* lines 73-75: the original sender is dropped after the last spawn
ParDropTx ==
    /\ pcC = "spawn"
    /\ spawned = Len(paths)
    /\ senders' = DropTx(senders)
    /\ pcC' = "size"
    /\ UNCHANGED <<height, results, spawned, wpc, wout, wres, sent, chan,
                   rxAlive, arrived, parErr, compact, spinner_index, frame,
                   reportIdx, blocks>>
    /\ UNCHANGED <<repositories, cmd, serVars, selVars, tblVars, call>>

\* a mode test that is off by one
CompactModeStrict(count, h) == count > h

\* line 80: the mode
CompactMode(count, h) == count >= h

\* lines 77-80: size()? succeeded and returned this height; the mode is set
ParSize ==
    /\ pcC = "size"
    /\ \E h \in 0..MaxHeight :
          /\ height' = h
          /\ compact' = CompactMode(Len(paths), h)
    /\ pcC' = "first_draw"
    /\ UNCHANGED <<results, spawned, wpc, wout, wres, sent, chan, senders,
                   rxAlive, arrived, parErr, spinner_index, frame, reportIdx,
                   blocks>>
    /\ UNCHANGED <<repositories, cmd, serVars, selVars, tblVars, call>>

\* lines 82, 125-134: context line, hide cursor, the initial print in full
\* mode; `height` is not read again
ParFirstDraw ==
    /\ pcC = "first_draw"
    /\ frame' = IF compact
                THEN frame
                ELSE Place(0, 0, FullFrame(paths, results, spinner_index))
    /\ height' = 0
    /\ pcC' = "poll"
    /\ UNCHANGED <<results, spawned, wpc, wout, wres, sent, chan, senders,
                   rxAlive, arrived, parErr, compact, spinner_index,
                   reportIdx, blocks>>
    /\ UNCHANGED <<repositories, cmd, serVars, selVars, tblVars, call>>

\* a consumer that gives up at the first failed target
AfterRecvAbortsOnError(status) ==
    IF status.tag = "Error" THEN "failed" ELSE "poll"

\* lines 139-141: whatever the status, the loop goes on
AfterRecv(status) == "poll"

\* lines 139-141: recv_timeout returned Ok
ParRecv ==
    /\ pcC = "poll"
    /\ chan /= <<>>
    /\ results' = Insert(results, Head(chan)[1], Head(chan)[2])
    /\ arrived' = Append(arrived, Head(chan)[1])
    /\ chan' = Tail(chan)
    /\ pcC' = AfterRecv(Head(chan)[2])
    /\ UNCHANGED <<height, spawned, wpc, wout, wres, sent, senders,
                   rxAlive, parErr, compact, spinner_index, frame, reportIdx,
                   blocks>>
    /\ UNCHANGED <<repositories, cmd, serVars, selVars, tblVars, call>>

\* recv_timeout: nothing buffered and a sender is still alive
TimedOut == chan = <<>> /\ senders > 0

\* a recv_timeout that reports a hang-up as soon as nothing is buffered
DisconnectedWhenEmpty == chan = <<>>

\* recv_timeout: nothing buffered and every sender has been dropped
Disconnected == chan = <<>> /\ senders = 0

\* lines 142-151: Err(Timeout), the redraw and the next spinner frame
ParTimeout ==
    /\ pcC = "poll"
    /\ TimedOut
    /\ frame' = Render(compact, frame, paths, results, spinner_index)
    /\ spinner_index' = (spinner_index + 1) % SpinnerLen
    /\ UNCHANGED <<pcC, height, results, spawned, wpc, wout, wres, sent,
                   chan, senders, rxAlive, arrived, parErr, compact,
                   reportIdx, blocks>>
    /\ UNCHANGED <<repositories, cmd, serVars, selVars, tblVars, call>>

\* line 152: Err(Disconnected) => break
ParDisconnected ==
    /\ pcC = "poll"
    /\ Disconnected
    /\ pcC' = "final"
    /\ UNCHANGED <<height, results, spawned, wpc, wout, wres, sent, chan,
                   senders, rxAlive, arrived, parErr, compact, spinner_index,
                   frame, reportIdx, blocks>>
    /\ UNCHANGED <<repositories, cmd, serVars, selVars, tblVars, call>>

\* lines 156-166: one last update; wait_for_results returns and drops rx
ParFinalRender ==
    /\ pcC = "final"
    /\ frame' = Render(compact, frame, paths, results, spinner_index)
    /\ rxAlive' = FALSE
    /\ pcC' = "report"
    /\ UNCHANGED <<height, results, spawned, wpc, wout, wres, sent, chan,
                   senders, arrived, parErr, compact, spinner_index,
                   reportIdx, blocks>>
    /\ UNCHANGED <<repositories, cmd, serVars, selVars, tblVars, call>>

\* a report that takes an Error with no text for nothing to show
ReportBlockSkipsEmptyError(path, res) ==
    IF path \in DOMAIN res /\ res[path].tag /= "Running" /\ res[path].text /= ""
    THEN <<[path |-> path, kind |-> res[path].tag, text |-> res[path].text]>>
    ELSE <<>>

\* a report that walks the paths from the last to the first
ReportPathReversed(k) == paths[Len(paths) + 1 - k]

\* line 85: the report loop goes through `paths`, in order
ReportPath(k) == paths[k]

\* lines 86-111: what the report prints for one path
ReportBlock(path, res) ==
    IF path \in DOMAIN res
    THEN CASE res[path].tag = "Error" ->
                <<[path |-> path, kind |-> "Error", text |-> res[path].text]>>
           [] res[path].tag = "Finished" ->
                IF res[path].text /= ""
                THEN <<[path |-> path, kind |-> "Finished", text |-> res[path].text]>>
                ELSE <<>>
           [] OTHER -> <<>>
    ELSE <<>>

\* lines 85-112, one iteration of the report loop
ParReport ==
    /\ pcC = "report"
    /\ reportIdx < Len(paths)
    /\ reportIdx' = reportIdx + 1
    /\ blocks' = blocks \o ReportBlock(ReportPath(reportIdx + 1), results)
    /\ UNCHANGED <<pcC, height, results, spawned, wpc, wout, wres, sent,
                   chan, senders, rxAlive, arrived, parErr, compact,
                   spinner_index, frame>>
    /\ UNCHANGED <<repositories, cmd, serVars, selVars, tblVars, call>>

\* lines 113-115: flush and Ok(())
ParFlush ==
    /\ pcC = "report"
    /\ reportIdx = Len(paths)
    /\ pcC' = "done"
    /\ UNCHANGED <<height, results, spawned, wpc, wout, wres, sent, chan,
                   senders, rxAlive, arrived, parErr, compact, spinner_index,
                   frame, reportIdx, blocks>>
    /\ UNCHANGED <<repositories, cmd, serVars, selVars, tblVars, call>>

\* the places where a terminal call is followed by `?`
ParFallible ==
    \/ pcC \in {"size", "first_draw", "final", "report"}
    \/ pcC = "poll" /\ TimedOut

\* size()?, queue(..)?, flush()?: the error is returned, rx is dropped with
\* whatever it still buffers
ParIoError ==
    /\ ParFallible
    /\ pcC' = "failed"
    /\ parErr' = "io"
    /\ rxAlive' = FALSE
    /\ chan' = <<>>
    /\ UNCHANGED <<height, results, spawned, wpc, wout, wres, sent, senders,
                   arrived, compact, spinner_index, frame, reportIdx, blocks>>
    /\ UNCHANGED <<repositories, cmd, serVars, selVars, tblVars, call>>

(***************************************************************************)
(* parallel_run, the worker threads (lines 46-70)                          *)
(***************************************************************************)
\* lines 47-63: the child ran (or could not be started); `result` is computed
WorkerOutput(i) ==
    /\ wpc[i] = "running"
    /\ \E o \in Outcomes :
          /\ wout' = [wout EXCEPT ![i] = o]
          /\ wres' = [wres EXCEPT ![i] = WorkerResult(o)]
    /\ wpc' = [wpc EXCEPT ![i] = "exited"]
    /\ UNCHANGED <<pcC, height, results, spawned, sent, chan, senders,
                   rxAlive, arrived, parErr, compact, spinner_index, frame,
                   reportIdx, blocks>>
    /\ UNCHANGED <<repositories, cmd, serVars, selVars, tblVars, call>>

\* lines 67-69: send; it fails, and expect panics, when the receiver is gone
WorkerSend(i) ==
    /\ wpc[i] = "exited"
    /\ IF rxAlive
       THEN /\ chan' = Append(chan, <<paths[i], wres[i]>>)
            /\ sent' = [sent EXCEPT ![i] = Append(sent[i], <<paths[i], wres[i]>>)]
            /\ wpc' = [wpc EXCEPT ![i] = "sent"]
       ELSE /\ wpc' = [wpc EXCEPT ![i] = "panicked"]
            /\ UNCHANGED <<chan, sent>>
    /\ UNCHANGED <<pcC, height, results, spawned, wout, wres, senders,
                   rxAlive, arrived, parErr, compact, spinner_index, frame,
                   reportIdx, blocks>>
    /\ UNCHANGED <<repositories, cmd, serVars, selVars, tblVars, call>>

\* line 70: the closure ends (or unwinds) and drops thread_tx
WorkerEnd(i) ==
    /\ wpc[i] \in {"sent", "panicked"}
    /\ wpc' = [wpc EXCEPT ![i] = IF wpc[i] = "sent" THEN "ended" ELSE "dead"]
    /\ senders' = senders - 1
    /\ wout' = [wout EXCEPT ![i] = NoOutcome]
    /\ wres' = [wres EXCEPT ![i] = Running]
    /\ UNCHANGED <<pcC, height, results, spawned, sent, chan, rxAlive,
                   arrived, parErr, compact, spinner_index, frame, reportIdx,
                   blocks>>
    /\ UNCHANGED <<repositories, cmd, serVars, selVars, tblVars, call>>

NextPar ==
    \/ ParEntry
    \/ ParStart
    \/ ParSpawn
    \/ ParDropTx
    \/ ParSize
    \/ ParFirstDraw
    \/ ParRecv
    \/ ParTimeout
    \/ ParDisconnected
    \/ ParFinalRender
    \/ ParReport
    \/ ParFlush
    \/ ParIoError
    \/ \E i \in Workers : WorkerOutput(i)
    \/ \E i \in Workers : WorkerSend(i)
    \/ \E i \in Workers : WorkerEnd(i)

(***************************************************************************)
(* serial_run, main thread                                                 *)
(***************************************************************************)
serIdle == UNCHANGED <<repositories, cmd, parVars, selVars, tblVars, call>>

\* what a child does before it exits: the stream of each chunk it writes
Scripts == UNION {[1..n -> Streams] : n \in 0..MaxWrites}

\* command::exec::run without -p, command::git::run: nothing registered
SerEntry ==
    /\ pcS = "entry"
    /\ cmd = "serial"
    /\ pcS' = IF Len(repositories) = 0 THEN "none_registered" ELSE "context"
    /\ UNCHANGED <<serErr, si, headers, attempts, cstate, ccode, script, pipe,
                   rdOpen, tcopy>>
    /\ serIdle

\* lines 15-19: paths, the context line, size()
SerContext ==
    /\ pcS = "context"
    /\ pcS' = "loop"
    /\ UNCHANGED <<serErr, si, headers, attempts, cstate, ccode, script, pipe,
                   rdOpen, tcopy>>
    /\ serIdle

\* lines 22-30: the header of the current path, flushed
SerHeader ==
    /\ pcS = "loop"
    /\ si <= Len(paths)
    /\ headers' = Append(headers, paths[si])
    /\ pcS' = "spawn"
    /\ UNCHANGED <<serErr, si, attempts, cstate, ccode, script, pipe, rdOpen,
                   tcopy>>
    /\ serIdle

\* lines 32-40: spawn() succeeded; both pipes exist and are empty
SerSpawn ==
    /\ pcS = "spawn"
    /\ attempts' = Append(attempts, paths[si])
    /\ cstate' = [cstate EXCEPT ![si] = "running"]
    /\ script' \in Scripts
    /\ pipe' = [s \in Streams |-> 0]
    /\ rdOpen' = [s \in Streams |-> TRUE]
    /\ tcopy' = [s \in Streams |-> "unspawned"]
    /\ pcS' = "spawn_out"
    /\ UNCHANGED <<serErr, si, headers, ccode>>
    /\ serIdle

\* line 37: spawn() failed and `?` returns the error
SerSpawnFail ==
    /\ pcS = "spawn"
    /\ attempts' = Append(attempts, paths[si])
    /\ cstate' = [cstate EXCEPT ![si] = "spawn_failed"]
    /\ pcS' = "failed"
    /\ serErr' = "spawn"
    /\ UNCHANGED <<si, headers, ccode, script, pipe, rdOpen, tcopy>>
    /\ serIdle

\* lines 42-44: the stdout passthrough thread is started
SerSpawnStdoutCopy ==
    /\ pcS = "spawn_out"
    /\ tcopy' = [tcopy EXCEPT !["stdout"] = "copying"]
    /\ pcS' = "spawn_err"
    /\ UNCHANGED <<serErr, si, headers, attempts, cstate, ccode, script, pipe,
                   rdOpen>>
    /\ serIdle

\* lines 46-48: the stderr passthrough thread is started
SerSpawnStderrCopy ==
    /\ pcS = "spawn_err"
    /\ tcopy' = [tcopy EXCEPT !["stderr"] = "copying"]
    /\ pcS' = "join_out"
    /\ UNCHANGED <<serErr, si, headers, attempts, cstate, ccode, script, pipe,
                   rdOpen>>
    /\ serIdle

\* a join that does not wait for the thread
JoinReturnsAtOnce(s) == tcopy[s] /= "unspawned"

\* JoinHandle::join returns once the thread has ended
JoinReturns(s) == tcopy[s] \in {"eof", "error"}

\* line 50
SerJoinStdout ==
    /\ pcS = "join_out"
    /\ JoinReturns("stdout")
    /\ pcS' = "join_err"
    /\ UNCHANGED <<serErr, si, headers, attempts, cstate, ccode, script, pipe,
                   rdOpen, tcopy>>
    /\ serIdle

\* line 51
SerJoinStderr ==
    /\ pcS = "join_err"
    /\ JoinReturns("stderr")
    /\ pcS' = "wait"
    /\ UNCHANGED <<serErr, si, headers, attempts, cstate, ccode, script, pipe,
                   rdOpen, tcopy>>
    /\ serIdle

\* Child::wait returns once the child has exited
WaitReturns(i) == cstate[i] = "zombie"

\* line 53: the exit status is collected and dropped; on to the next path
SerWait ==
    /\ pcS = "wait"
    /\ WaitReturns(si)
    /\ cstate' = [cstate EXCEPT ![si] = "reaped"]
    /\ si' = si + 1
    /\ pcS' = "loop"
    /\ UNCHANGED <<serErr, headers, attempts, ccode, script, pipe, rdOpen,
                   tcopy>>
    /\ serIdle

\* lines 56-57: after the last path
SerFinish ==
    /\ pcS = "loop"
    /\ si > Len(paths)
    /\ pcS' = "done"
    /\ UNCHANGED <<serErr, si, headers, attempts, cstate, ccode, script, pipe,
                   rdOpen, tcopy>>
    /\ serIdle

\* queue_context_line(..)?, size()?, flush()? of lines 17, 19, 30 and 56
SerIoError ==
    /\ pcS \in {"context", "loop"}
    /\ pcS' = "failed"
    /\ serErr' = "io"
    /\ UNCHANGED <<si, headers, attempts, cstate, ccode, script, pipe, rdOpen,
                   tcopy>>
    /\ serIdle

(***************************************************************************)
(* serial_run: the child process and its two pipes                         *)
(***************************************************************************)
ChildRunning == si \in DOMAIN paths /\ cstate[si] = "running"

\* the child writes its next chunk; a full pipe blocks it, a pipe whose read
\* end is closed fails the write at once
ChildWrite ==
    /\ ChildRunning
    /\ script /= <<>>
    /\ IF rdOpen[Head(script)]
       THEN /\ pipe[Head(script)] < PipeCap
            /\ pipe' = [pipe EXCEPT ![Head(script)] = pipe[Head(script)] + 1]
       ELSE pipe' = pipe
    /\ script' = Tail(script)
    /\ UNCHANGED <<pcS, serErr, si, headers, attempts, cstate, ccode, rdOpen,
                   tcopy>>
    /\ serIdle

\* SIGPIPE: a write to a pipe whose read end is closed kills the child
ChildSigpipe ==
    /\ ChildRunning
    /\ script /= <<>>
    /\ ~rdOpen[Head(script)]
    /\ script' = <<>>
    /\ cstate' = [cstate EXCEPT ![si] = "zombie"]
    /\ ccode' = [ccode EXCEPT ![si] = 1]
    /\ UNCHANGED <<pcS, serErr, si, headers, attempts, pipe, rdOpen, tcopy>>
    /\ serIdle

\* the child exits with some code; the write ends of both pipes close
ChildExit ==
    /\ ChildRunning
    /\ script = <<>>
    /\ cstate' = [cstate EXCEPT ![si] = "zombie"]
    /\ \E c \in ExitCodes : ccode' = [ccode EXCEPT ![si] = c]
    /\ UNCHANGED <<pcS, serErr, si, headers, attempts, script, pipe, rdOpen,
                   tcopy>>
    /\ serIdle

(***************************************************************************)
(* serial_run: the passthrough threads (lines 42-48)                       *)
(***************************************************************************)
\* the two streams copied one after the other: stderr only once stdout is
\* at end-of-file
CopyRunsInTurn(s) ==
    /\ tcopy[s] = "copying"
    /\ s = "stderr" => tcopy["stdout"] \in {"eof", "error"}

\* a passthrough thread runs from the moment it is spawned
CopyRuns(s) == tcopy[s] = "copying"

\* io::copy moves one chunk from the pipe to the parent's stream
CopyChunk(s) ==
    /\ CopyRuns(s)
    /\ pipe[s] > 0
    /\ pipe' = [pipe EXCEPT ![s] = pipe[s] - 1]
    /\ UNCHANGED <<pcS, serErr, si, headers, attempts, cstate, ccode, script,
                   rdOpen, tcopy>>
    /\ serIdle

\* io::copy reads end-of-file: the pipe is empty and the child has exited;
\* the closure ends and drops the read end
CopyEof(s) ==
    /\ CopyRuns(s)
    /\ pipe[s] = 0
    /\ ~ChildRunning
    /\ tcopy' = [tcopy EXCEPT ![s] = "eof"]
    /\ rdOpen' = [rdOpen EXCEPT ![s] = FALSE]
    /\ UNCHANGED <<pcS, serErr, si, headers, attempts, cstate, ccode, script,
                   pipe>>
    /\ serIdle

\* io::copy fails writing to the parent's stream; `let _ =` drops the error,
\* the closure ends and drops the read end with what is still buffered
CopyFail(s) ==
    /\ CopyRuns(s)
    /\ pipe[s] > 0
    /\ pipe' = [pipe EXCEPT ![s] = 0]
    /\ tcopy' = [tcopy EXCEPT ![s] = "error"]
    /\ rdOpen' = [rdOpen EXCEPT ![s] = FALSE]
    /\ UNCHANGED <<pcS, serErr, si, headers, attempts, cstate, ccode, script>>
    /\ serIdle

NextSer ==
    \/ SerEntry
    \/ SerContext
    \/ SerHeader
    \/ SerSpawn
    \/ SerSpawnFail
    \/ SerSpawnStdoutCopy
    \/ SerSpawnStderrCopy
    \/ SerJoinStdout
    \/ SerJoinStderr
    \/ SerWait
    \/ SerFinish
    \/ SerIoError
    \/ ChildWrite
    \/ ChildSigpipe
    \/ ChildExit
    \/ \E s \in Streams : CopyChunk(s)
    \/ \E s \in Streams : CopyEof(s)
    \/ \E s \in Streams : CopyFail(s)

(***************************************************************************)
(* command/context.rs: the interactive selector                            *)
(***************************************************************************)
selIdle == UNCHANGED <<cmd, parVars, serVars, tblVars, call>>

\* what event::read() returns: the keys event_loop matches on, a key it
\* does not ("x") and an event that is not a key ("Resize")
Events ==
    {"+", "-", "Up", "k", "Down", "j", "Left", "h", "Right", "l", "Enter",
     " ", "x", "Resize"}

Min2(a, b) == IF a < b THEN a ELSE b

\* queue_page_info, line 123
PageCountFloor(n, ps) == (n \div ps) + 1

PageCount(n, ps) == ((n - 1) \div ps) + 1

\* queue_page_info line 129, queue_repo_list line 176
SelectedPage(sel, ps) == sel \div ps

\* queue_page_info: the dots and the "[Page x/y]" label, queued only when
\* there is more than one page, then "[Selected a/b]"
PageInfo(repos, sel, ps) ==
    LET repo_count == Len(repos)
        page_count == PageCount(repo_count, ps)
        selected_count == Cardinality({i \in DOMAIN repos : repos[i].visible})
        selected_page == SelectedPage(sel, ps)
    IN  [dots |-> IF page_count > 1
                  THEN [i \in 1..page_count |-> i - 1 = selected_page]
                  ELSE <<>>,
         label |-> IF page_count > 1
                   THEN <<selected_page + 1, page_count>>
                   ELSE <<>>,
         counts |-> <<selected_count, repo_count>>]

\* a list that does not fill a short last page with blank lines
RepoListUnfilled(repos, sel, ps) ==
    LET repo_count == Len(repos)
        page == SelectedPage(sel, ps)
        page_start == page * ps
        page_end == Min2(page_start + ps, repo_count)
    IN  [rows |-> [i \in 1..(page_end - page_start) |->
                     [index |-> i - 1 + page_start,
                      path |-> repos[i + page_start].path,
                      checked |-> repos[i + page_start].visible,
                      highlighted |-> (i - 1 + page_start = sel)]],
         blanks |-> 0]

\* queue_repo_list: one row for each entry of the page's slice, then blank
\* lines up to page_size
RepoList(repos, sel, ps) ==
    LET repo_count == Len(repos)
        page == SelectedPage(sel, ps)
        page_start == page * ps
        page_end == Min2(page_start + ps, repo_count)
    IN  [rows |-> [i \in 1..(page_end - page_start) |->
                     [index |-> i - 1 + page_start,
                      path |-> repos[i + page_start].path,
                      checked |-> repos[i + page_start].visible,
                      highlighted |-> (i - 1 + page_start = sel)]],
         blanks |-> ps - (page_end - page_start)]

\* what a draw pass queues: cursor::MoveUp(up), the indicator, the list
Draw(up, repos, sel, ps) ==
    [drawn |-> TRUE, up |-> up, info |-> PageInfo(repos, sel, ps),
     list |-> RepoList(repos, sel, ps)]

\* lines 69-76: '+' and '-'
SetAllSticky(repos, v) ==
    [i \in DOMAIN repos |-> [repos[i] EXCEPT !.visible = @ \/ v]]

SetAll(repos, v) == [i \in DOMAIN repos |-> [repos[i] EXCEPT !.visible = v]]

\* lines 77-81: Up and 'k'
KeyUp(sel) == IF sel > 0 THEN sel - 1 ELSE sel

\* lines 82-86: Down and 'j'
KeyDownWraps(sel, repo_count) == IF sel < repo_count - 1 THEN sel + 1 ELSE 0

KeyDown(sel, repo_count) == IF sel < repo_count - 1 THEN sel + 1 ELSE sel

\* lines 87-93: Left and 'h'
KeyLeft(sel, ps) == IF sel >= ps THEN sel - ps ELSE 0

\* lines 94-96: Right and 'l'
KeyRightToCount(sel, ps, repo_count) == Min2(sel + ps, repo_count)

KeyRight(sel, ps, repo_count) == Min2(sel + ps, repo_count - 1)

\* lines 98-100: space
ToggleAndNext(repos, sel) ==
    [i \in DOMAIN repos |->
        IF i \in {sel + 1, sel + 2}
        THEN [repos[i] EXCEPT !.visible = ~@]
        ELSE repos[i]]

\* a toggle that also moves the entry to the head of the list
ToggleAndMoveFirst(repos, sel) ==
    <<[repos[sel + 1] EXCEPT !.visible = ~@]>>
        \o SubSeq(repos, 1, sel) \o SubSeq(repos, sel + 2, Len(repos))

Toggle(repos, sel) == [repos EXCEPT ![sel + 1].visible = ~@]

\* the match of lines 67-104 on `selected`
NextSelected(ev, sel, ps, repo_count) ==
    CASE ev \in {"Up", "k"} -> KeyUp(sel)
      [] ev \in {"Down", "j"} -> KeyDown(sel, repo_count)
      [] ev \in {"Left", "h"} -> KeyLeft(sel, ps)
      [] ev \in {"Right", "l"} -> KeyRight(sel, ps, repo_count)
      [] OTHER -> sel

\* the match of lines 67-104 on config.repositories
NextRepos(ev, repos, sel) ==
    CASE ev = "+" -> SetAll(repos, TRUE)
      [] ev = "-" -> SetAll(repos, FALSE)
      [] ev = " " -> Toggle(repos, sel)
      [] OTHER -> repos

\* the run of space presses the last event belongs to
NextSpaces(ev) ==
    CASE ev = " " ->
            IF spaces.count = 1
            THEN [count |-> 2, list |-> spaces.list]
            ELSE [count |-> 1, list |-> repositories]
      [] ev \in {"x", "Resize"} -> spaces
      [] OTHER -> NoSpaces

\* context_ui lines 20-25
CtxEntry ==
    /\ pcX = "entry"
    /\ cmd = "context"
    /\ pcX' = IF Len(repositories) = 0 THEN "none_registered" ELSE "size"
    /\ UNCHANGED <<repositories, event, selected, page_size, rawMode,
                   cursorHidden, screen, saved, ctxErr, spaces>>
    /\ selIdle

\* a test that only keeps `height as usize - 3` from underflowing
TooSmallBelowThree(h) == h < 3

\* line 29: not enough space for the UI
TooSmall(h) == h <= 5

\* lines 26-37: size() succeeded; a terminal of 5 rows or fewer ends the UI
CtxSize ==
    /\ pcX = "size"
    /\ \E h \in 0..MaxTermRows :
        IF TooSmall(h)
        THEN /\ pcX' = "too_small"
             /\ UNCHANGED page_size
        ELSE /\ pcX' = "first_draw"
             /\ page_size' = Min2(Len(repositories), h - 3)
    /\ UNCHANGED <<repositories, event, selected, rawMode, cursorHidden,
                   screen, saved, ctxErr, spaces>>
    /\ selIdle

\* lines 41-47: DisableLineWrap, the info bar, the first draw
CtxFirstDraw ==
    /\ pcX = "first_draw"
    /\ screen' = Draw(0, repositories, 0, page_size)
    /\ pcX' = "hide"
    /\ UNCHANGED <<repositories, event, selected, page_size, rawMode,
                   cursorHidden, saved, ctxErr, spaces>>
    /\ selIdle

\* event_loop lines 61-63: selected = 0, cursor::Hide
CtxHideCursor ==
    /\ pcX = "hide"
    /\ selected' = 0
    /\ cursorHidden' = TRUE
    /\ pcX' = "raw"
    /\ UNCHANGED <<repositories, event, page_size, rawMode, screen, saved,
                   ctxErr, spaces>>
    /\ selIdle

\* line 64: enable_raw_mode()
CtxEnableRaw ==
    /\ pcX = "raw"
    /\ rawMode' = TRUE
    /\ pcX' = "loop"
    /\ UNCHANGED <<repositories, event, selected, page_size, cursorHidden,
                   screen, saved, ctxErr, spaces>>
    /\ selIdle

\* lines 67-108: an event other than Enter is read, handled and the page
\* is redrawn and flushed
CtxEvent(ev) ==
    /\ pcX = "loop"
    /\ ev /= "Enter"
    /\ event' = ev
    /\ selected' = NextSelected(ev, selected, page_size, Len(repositories))
    /\ repositories' = NextRepos(ev, repositories, selected)
    /\ spaces' = NextSpaces(ev)
    /\ screen' = Draw(page_size + 1, repositories', selected', page_size)
    /\ UNCHANGED <<pcX, page_size, rawMode, cursorHidden, saved, ctxErr>>
    /\ selIdle

\* lines 67-108: the event is read and handled, then queueing the redraw or
\* the flush fails and `?` returns from event_loop and context_ui
CtxRedrawError(ev) ==
    /\ pcX = "loop"
    /\ ev /= "Enter"
    /\ event' = ev
    /\ selected' = NextSelected(ev, selected, page_size, Len(repositories))
    /\ repositories' = NextRepos(ev, repositories, selected)
    /\ spaces' = NextSpaces(ev)
    /\ pcX' = "failed"
    /\ ctxErr' = "io"
    /\ UNCHANGED <<page_size, rawMode, cursorHidden, screen, saved>>
    /\ selIdle

\* line 97: Enter breaks out of the loop
CtxEnter ==
    /\ pcX = "loop"
    /\ event' = "Enter"
    /\ pcX' = "restore_raw"
    /\ UNCHANGED <<repositories, selected, page_size, rawMode, cursorHidden,
                   screen, saved, ctxErr, spaces>>
    /\ selIdle

\* line 111: disable_raw_mode()
CtxDisableRaw ==
    /\ pcX = "restore_raw"
    /\ rawMode' = FALSE
    /\ pcX' = "show"
    /\ UNCHANGED <<repositories, event, selected, page_size, cursorHidden,
                   screen, saved, ctxErr, spaces>>
    /\ selIdle

\* line 112: cursor::Show
CtxShowCursor ==
    /\ pcX = "show"
    /\ cursorHidden' = FALSE
    /\ pcX' = "wrap"
    /\ UNCHANGED <<repositories, event, selected, page_size, rawMode,
                   screen, saved, ctxErr, spaces>>
    /\ selIdle

\* context_ui line 51: EnableLineWrap
CtxEnableWrap ==
    /\ pcX = "wrap"
    /\ pcX' = "write"
    /\ UNCHANGED <<repositories, event, selected, page_size, rawMode,
                   cursorHidden, screen, saved, ctxErr, spaces>>
    /\ selIdle

\* line 53: config.write() hands the list to the repositories file
CtxWrite ==
    /\ pcX = "write"
    /\ saved' = [written |-> TRUE, repositories |-> repositories]
    /\ pcX' = "done"
    /\ UNCHANGED <<repositories, event, selected, page_size, rawMode,
                   cursorHidden, screen, ctxErr, spaces>>
    /\ selIdle

\* where context_ui and event_loop call the terminal or the file system
\* with `?`: size, the first draw, Hide, enable_raw_mode, event::read,
\* disable_raw_mode, Show, EnableLineWrap, config.write
CtxFallible ==
    pcX \in {"size", "first_draw", "hide", "raw", "loop", "restore_raw",
             "show", "wrap", "write"}

\* one of them returns Err: `?` returns at once, nothing else is run
CtxIoError ==
    /\ CtxFallible
    /\ pcX' = "failed"
    /\ ctxErr' = "io"
    /\ UNCHANGED <<repositories, event, selected, page_size, rawMode,
                   cursorHidden, screen, saved, spaces>>
    /\ selIdle

NextSel ==
    \/ CtxEntry
    \/ CtxSize
    \/ CtxFirstDraw
    \/ CtxHideCursor
    \/ CtxEnableRaw
    \/ \E ev \in Events : CtxEvent(ev)
    \/ \E ev \in Events : CtxRedrawError(ev)
    \/ CtxEnter
    \/ CtxDisableRaw
    \/ CtxShowCursor
    \/ CtxEnableWrap
    \/ CtxWrite
    \/ CtxIoError

(***************************************************************************)
(* tui/table.rs: queue_table                                               *)
(***************************************************************************)
tblIdle == UNCHANGED <<repositories, cmd, parVars, serVars, selVars, call>>

\* line 60
MIN_COL_WIDTH == 3
\* line 61
CELL_SPACING == 2

\* the codepoint pushed on line 82
Ellipsis == <<0, 0>>

\* line 51: the longest row's length, 0 for no rows
MaxColsOf(rows) ==
    IF rows = <<>> THEN 0
    ELSE CHOOSE n \in {Len(rows[r]) : r \in DOMAIN rows} :
            \A r \in DOMAIN rows : Len(rows[r]) <= n

\* lines 52-57: per column, the longest cell among the rows that have one
ColWidths(rows) ==
    [i \in 1..MaxColsOf(rows) |->
        LET lens == {CellLen(rows[r][i]) : r \in {x \in DOMAIN rows : i <= Len(rows[x])}}
        IN  CHOOSE n \in lens : \A k \in lens : k <= n]

\* line 64: the cells the inner loop goes through
RowCellsPadded(rows, r) ==
    rows[r] \o [i \in 1..(MaxColsOf(rows) - Len(rows[r])) |-> <<>>]

RowCells(rows, r) == rows[r]

\* line 65
ColWidth(i) == col_widths[i] + CELL_SPACING

\* line 66
CellEndPos(i, p) == Min2(p + ColWidth(i), table.width)

\* lines 67-72: the cell was cut to less than MIN_COL_WIDTH
StopsWhenNarrow(i, p) == CellEndPos(i, p) - p < MIN_COL_WIDTH

Stops(i, p) ==
    /\ ColWidth(i) >= MIN_COL_WIDTH
    /\ CellEndPos(i, p) - p < MIN_COL_WIDTH

\* chars().take(k)
Take(span, k) == SubSeq(span, 1, Min2(k, Len(span)))

\* lines 75-93, the spans of one cell from position p on: `text` is what
\* is queued, `pos` the position after it.  When a span is longer than a
\* remaining_space of 0, `remaining_space - 1` underflows: `underflow` is
\* set, `queued` is what was queued before that span, and `text` and `pos`
\* are what a build with wrapping arithmetic goes on to produce (take() of
\* usize::MAX keeps the whole span, then the ellipsis; pos += 0).
RECURSIVE RenderSpans(_, _, _)
RenderSpans(spans, p, cell_end_pos) ==
    IF spans = <<>>
    THEN [text |-> <<>>, pos |-> p, underflow |-> FALSE, queued |-> <<>>]
    ELSE LET span == Head(spans)
             remaining_space == cell_end_pos - p
             span_length == Len(span)
         IN  IF span_length > remaining_space
             THEN IF remaining_space = 0
                  THEN [text |-> Append(span, Ellipsis), pos |-> p,
                        underflow |-> TRUE, queued |-> <<>>]
                  ELSE [text |-> Append(Take(span, remaining_space - 1), Ellipsis),
                        pos |-> p + remaining_space,
                        underflow |-> FALSE,
                        queued |-> Append(Take(span, remaining_space - 1), Ellipsis)]
             ELSE LET rest == RenderSpans(Tail(spans), p + span_length, cell_end_pos)
                  IN  [text |-> span \o rest.text, pos |-> rest.pos,
                       underflow |-> rest.underflow,
                       queued |-> span \o rest.queued]

\* the cell the inner loop is at, and its spans rendered from `pos`
TblAtCell ==
    /\ pcT = "row"
    /\ row \in DOMAIN table.rows
    /\ col \in DOMAIN RowCells(table.rows, row)

TblRendered ==
    RenderSpans(RowCells(table.rows, row)[col], pos, CellEndPos(col, pos))

\* lines 95-100: the padding after a cell whose spans ended at position p
Padding(cell_end_pos, p) == IF cell_end_pos > p THEN cell_end_pos - p ELSE 0

\* lines 51-57: the column widths
TblWidths ==
    /\ pcT = "entry"
    /\ cmd = "table"
    /\ col_widths' = ColWidths(table.rows)
    /\ pcT' = "row"
    /\ UNCHANGED <<table, row, col, pos, line, lines, tblErr>>
    /\ tblIdle

\* lines 64-100: one cell is queued, spans then padding
TblCell ==
    /\ TblAtCell
    /\ ~Stops(col, pos)
    /\ ~TblRendered.underflow
    /\ line' = Append(line, [col |-> col,
                             width |-> CellEndPos(col, pos) - pos,
                             text |-> TblRendered.text,
                             padding |-> Padding(CellEndPos(col, pos), TblRendered.pos)])
    /\ pos' = TblRendered.pos + Padding(CellEndPos(col, pos), TblRendered.pos)
    /\ col' = col + 1
    /\ UNCHANGED <<table, pcT, col_widths, row, lines, tblErr>>
    /\ tblIdle

\* line 81 underflows in a build without overflow checks: the subtraction
\* wraps and the cell is queued with the whole span and an ellipsis
TblCellWraps ==
    /\ TblAtCell
    /\ ~Stops(col, pos)
    /\ TblRendered.underflow
    /\ line' = Append(line, [col |-> col,
                             width |-> CellEndPos(col, pos) - pos,
                             text |-> TblRendered.text,
                             padding |-> Padding(CellEndPos(col, pos), TblRendered.pos)])
    /\ pos' = TblRendered.pos + Padding(CellEndPos(col, pos), TblRendered.pos)
    /\ col' = col + 1
    /\ UNCHANGED <<table, pcT, col_widths, row, lines, tblErr>>
    /\ tblIdle

\* line 81 underflows in a build with overflow checks: the thread panics
\* after queueing the spans before that one
TblCellPanics ==
    /\ TblAtCell
    /\ ~Stops(col, pos)
    /\ TblRendered.underflow
    /\ line' = Append(line, [col |-> col,
                             width |-> CellEndPos(col, pos) - pos,
                             text |-> TblRendered.queued,
                             padding |-> 0])
    /\ pcT' = "panicked"
    /\ tblErr' = "panic"
    /\ UNCHANGED <<table, col_widths, row, col, pos, lines>>
    /\ tblIdle

\* lines 70-72 and 102: the row stops at this cell, "\r\n" is queued
TblBreak ==
    /\ TblAtCell
    /\ Stops(col, pos)
    /\ lines' = Append(lines, line)
    /\ line' = <<>>
    /\ row' = row + 1
    /\ col' = 1
    /\ pos' = 0
    /\ UNCHANGED <<table, pcT, col_widths, tblErr>>
    /\ tblIdle

\* line 102: the row has no more cells, "\r\n" is queued
TblEndRow ==
    /\ pcT = "row"
    /\ row \in DOMAIN table.rows
    /\ col > Len(RowCells(table.rows, row))
    /\ lines' = Append(lines, line)
    /\ line' = <<>>
    /\ row' = row + 1
    /\ col' = 1
    /\ pos' = 0
    /\ UNCHANGED <<table, pcT, col_widths, tblErr>>
    /\ tblIdle

\* line 105: no more rows
TblDone ==
    /\ pcT = "row"
    /\ row > Len(table.rows)
    /\ pcT' = "done"
    /\ UNCHANGED <<table, col_widths, row, col, pos, line, lines, tblErr>>
    /\ tblIdle

\* lines 83, 90, 98, 102: a queue() returns Err and `?` returns it
TblIoError ==
    /\ pcT = "row"
    /\ row \in DOMAIN table.rows
    /\ pcT' = "failed"
    /\ tblErr' = "io"
    /\ UNCHANGED <<table, col_widths, row, col, pos, line, lines>>
    /\ tblIdle

NextTbl ==
    \/ TblWidths
    \/ TblCell
    \/ TblCellWraps
    \/ TblCellPanics
    \/ TblBreak
    \/ TblEndRow
    \/ TblDone
    \/ TblIoError

(***************************************************************************)
(* command::register::register and command::unregister::unregister         *)
(***************************************************************************)
regIdle == UNCHANGED <<parVars, serVars, selVars, tblVars>>

\* register.rs lines 16-22, one iteration: add_repo on a discovered path
AddRepo(repo_path) ==
    /\ cmd = "register"
    /\ repositories' = add_repo(repositories, repo_path).repositories
    /\ call' = [op |-> "add_repo", path |-> repo_path, before |-> repositories,
                ret |-> add_repo(repositories, repo_path).ret]
    /\ UNCHANGED cmd
    /\ regIdle

\* unregister.rs lines 16-22, one iteration: remove_repo on a discovered path
RemoveRepo(repo_path) ==
    /\ cmd = "unregister"
    /\ repositories' = remove_repo(repositories, repo_path).repositories
    /\ call' = [op |-> "remove_repo", path |-> repo_path,
                before |-> repositories,
                ret |-> remove_repo(repositories, repo_path).ret]
    /\ UNCHANGED cmd
    /\ regIdle

NextReg ==
    \/ \E repo_path \in RegPaths : AddRepo(repo_path)
    \/ \E repo_path \in RegPaths : RemoveRepo(repo_path)

Next == NextPar \/ NextSer \/ NextSel \/ NextTbl \/ NextReg

\* command::exec::run was called with -p
InitParallel == cmd = "parallel" /\ Init

\* command::exec::run was called without -p
InitSerial == cmd = "serial" /\ Init

SpecPar == InitParallel /\ [][NextPar]_vars

SpecSer == InitSerial /\ [][NextSer]_vars

\* command::exec::run was called, with or without -p
InitRun == cmd \in {"parallel", "serial"} /\ Init

NextRun == NextPar \/ NextSer

SpecRun == InitRun /\ [][NextRun]_vars

\* command::context::context_ui was called
InitSelector == cmd = "context" /\ Init

SpecSel == InitSelector /\ [][NextSel]_vars

\* queue_table was called
InitTable == cmd = "table" /\ Init

SpecTbl == InitTable /\ [][NextTbl]_vars

\* register or unregister was called
InitRegistry == cmd \in {"register", "unregister"} /\ Init

SpecReg == InitRegistry /\ [][NextReg]_vars

Spec == Init /\ [][Next]_vars

(***************************************************************************)
(* Specifications                                                          *)
(***************************************************************************)
\* the steps of parallel_run's main thread that are not an error return
ParMain ==
    \/ ParEntry \/ ParStart \/ ParSpawn \/ ParDropTx \/ ParSize
    \/ ParFirstDraw \/ ParRecv \/ ParTimeout \/ ParDisconnected
    \/ ParFinalRender \/ ParReport \/ ParFlush

\* every thread that can run does run, and every child ends
FairSpecPar ==
    /\ SpecPar
    /\ WF_vars(ParMain)
    /\ \A i \in Workers : WF_vars(WorkerOutput(i))
    /\ \A i \in Workers : WF_vars(WorkerSend(i))
    /\ \A i \in Workers : WF_vars(WorkerEnd(i))

\* the steps of serial_run's main thread that are not an error return
SerMain ==
    \/ SerEntry \/ SerContext \/ SerHeader \/ SerSpawn \/ SerSpawnStdoutCopy
    \/ SerSpawnStderrCopy \/ SerJoinStdout \/ SerJoinStderr \/ SerWait
    \/ SerFinish

\* every thread that can run does run; the child writes what it has to write
\* and exits
FairSpecSer ==
    /\ SpecSer
    /\ WF_vars(SerMain)
    /\ WF_vars(ChildWrite)
    /\ WF_vars(ChildExit)
    /\ \A s \in Streams : WF_vars(CopyChunk(s))
    /\ \A s \in Streams : WF_vars(CopyEof(s))

(***************************************************************************)
(* Properties of parallel_run                                              *)
(***************************************************************************)
ActiveSet == {paths[i] : i \in 1..Len(paths)}

PastLoop == pcC \in {"final", "report", "done"}

\* the last progress block shows no target as running
FrameAllDone ==
    /\ frame.mode \in {"full", "compact"}
    /\ frame.mode = "full" =>
          /\ Len(frame.lines) = Len(paths)
          /\ \A k \in 1..Len(paths) :
                /\ frame.lines[k].path = paths[k]
                /\ frame.lines[k].glyph \in {"check", "X"}
    /\ frame.mode = "compact" =>
          /\ frame.line.finished = Len(paths)
          /\ frame.line.total = Len(paths)

\* C1: the consumer is past its polling loop only when the channel is
\* disconnected (no sender left, nothing buffered), every worker has sent its
\* one message and ended, and every message has been stored; so at the final
\* render and in the report every active path has one status, Finished or
\* Error, which is the one a worker of that path sent.
C1_LoopEndsWhenAllStored ==
    PastLoop =>
        /\ chan = <<>>
        /\ senders = 0
        /\ \A i \in 1..Len(paths) : Len(sent[i]) = 1 /\ wpc[i] = "ended"
        /\ Len(arrived) = Len(paths)
        /\ DOMAIN results = ActiveSet
        /\ \A p \in ActiveSet :
              /\ results[p].tag \in {"Finished", "Error"}
              /\ \E i \in 1..Len(paths) : sent[i] = << <<p, results[p]>> >>
        /\ pcC \in {"report", "done"} => FrameAllDone

\* two different targets, the second one's result stored first, run complete
C1_Witness ==
    /\ pcC = "done"
    /\ Len(paths) = 2
    /\ paths[1] /= paths[2]
    /\ arrived = <<paths[2], paths[1]>>
    /\ frame.mode = "full"

\* C2: the framed blocks of the report are in the order of the active-target
\* list: they map, in increasing order, to positions of `paths` already
\* visited by the report, whatever the order in which results arrived.
C2_ReportInListOrder ==
    \E f \in [1..Len(blocks) -> 1..Len(paths)] :
        /\ \A k \in 1..Len(blocks) :
              /\ blocks[k].path = paths[f[k]]
              /\ f[k] <= reportIdx
        /\ \A k \in 1..Len(blocks) : \A l \in 1..Len(blocks) :
              k < l => f[k] < f[l]

\* both targets got a block, in list order, though the second finished first
C2_Witness ==
    /\ pcC = "done"
    /\ Len(paths) = 2
    /\ paths[1] /= paths[2]
    /\ arrived = <<paths[2], paths[1]>>
    /\ Len(blocks) = 2
    /\ blocks[1].path = paths[1]
    /\ blocks[2].path = paths[2]

\* the outcomes the report shows
NeedsBlock(st) ==
    \/ st.tag = "Error"
    \/ st.tag = "Finished" /\ st.text /= ""

\* C3: when the report is complete, a path has a framed block if and only if
\* its status is Error (with any text, empty included) or Finished with
\* non-empty output; the number of blocks is the number of such list entries,
\* and each block carries the status' kind and text.
C3_BlocksAreErrorsAndOutputs ==
    pcC = "done" =>
        /\ Len(blocks) =
              Cardinality({i \in 1..Len(paths) : NeedsBlock(results[paths[i]])})
        /\ \A p \in ActiveSet :
              (\E k \in 1..Len(blocks) : blocks[k].path = p)
                  <=> NeedsBlock(results[p])
        /\ \A k \in 1..Len(blocks) :
              /\ blocks[k].kind = results[blocks[k].path].tag
              /\ blocks[k].text = results[blocks[k].path].text

\* an Error with empty text is shown, a Finished with empty output is not
C3_Witness ==
    /\ pcC = "done"
    /\ Len(paths) = 2
    /\ results[paths[1]] = Finished("")
    /\ results[paths[2]] = Error("")
    /\ Len(blocks) = 1
    /\ blocks[1] = [path |-> paths[2], kind |-> "Error", text |-> ""]

C5_FailuresStayLocal ==
    /\ \A p \in DOMAIN results :
          results[p] /= Running =>
              \E i \in 1..Len(paths) : sent[i] = << <<p, results[p]>> >>
    /\ \A j \in Workers : wpc[j] = "running" => ENABLED WorkerOutput(j)
    /\ \A j \in Workers : wpc[j] = "exited" => ENABLED WorkerSend(j)
    /\ pcC = "failed" => parErr = "io"
    /\ pcC = "done" =>
          /\ parErr = "none"
          /\ reportIdx = Len(paths)
          /\ \A i \in 1..Len(paths) : Len(sent[i]) = 1

\* the first result stored was a failure; the other target still finished
\* and the run returned Ok
C5_Witness ==
    /\ pcC = "done"
    /\ Len(paths) = 2
    /\ paths[1] /= paths[2]
    /\ arrived = <<paths[1], paths[2]>>
    /\ results[paths[1]] = Error(SpawnErrText)
    /\ results[paths[2]] = Finished("out")

\* the consumer's Err(Timeout) arm is the only step that moves the spinner
TimeoutStep == spinner_index' /= spinner_index

\* C6: with every thread scheduled and every child ending, parallel_run gets
\* to the end of its report unless a terminal call fails; each timeout of the
\* poll redraws the progress block from the statuses stored so far and goes
\* back to polling; and the consumer is never past the loop while a worker
\* has not sent.
C6_PollingEndsWhenWorkersDo ==
    /\ <>(pcC \in {"done", "none_registered"} \/ parErr = "io")
    /\ [][TimeoutStep =>
            /\ pcC = "poll" /\ pcC' = "poll"
            /\ frame' = Render(compact, frame, paths, results, spinner_index)
            /\ spinner_index' = (spinner_index + 1) % SpinnerLen]_vars
    /\ [](\A i \in 1..Len(paths) :
            wpc[i] \in {"unspawned", "running", "exited"} => ~PastLoop)

\* the block was redrawn at least once while polling, and the run completed
C6_Witness ==
    /\ pcC = "done"
    /\ Len(paths) = 2
    /\ spinner_index > 0

\* C7: compact mode is chosen exactly when the number of active targets is
\* at least the terminal height; the flag is set by line 80 only, and every
\* progress block drawn is in the mode chosen.
C7_CompactIffCountAtLeastHeight ==
    /\ [](pcC = "first_draw" => (compact <=> Len(paths) >= height))
    /\ [][pcC /= "size" => compact' = compact]_vars
    /\ [](frame.mode /= "none" =>
            frame.mode = IF compact THEN "compact" ELSE "full")

\* as many targets as the terminal has rows: compact
C7_Witness ==
    /\ pcC = "first_draw"
    /\ height = 2
    /\ Len(paths) = 2
    /\ compact

(***************************************************************************)
(* Properties of serial_run                                                *)
(***************************************************************************)
SerEnded == pcS \in {"done", "failed", "none_registered"}

CopyEnded(s) == tcopy[s] \in {"eof", "error"}

\* C8: serial_run goes through the active paths one at a time in list
\* order: the headers printed and the spawns attempted are prefixes of
\* `paths`, a spawn never precedes its header, the only child that exists is
\* the current path's, and while the next header or spawn is due the child
\* of every earlier path has been waited for and both passthrough threads of
\* the previous path have ended; each join returns only for an ended thread.
C8_OneTargetAtATime ==
    /\ Len(headers) <= Len(paths)
    /\ \A k \in 1..Len(headers) : headers[k] = paths[k]
    /\ Len(attempts) <= Len(headers)
    /\ Len(headers) <= Len(attempts) + 1
    /\ \A k \in 1..Len(attempts) : attempts[k] = paths[k]
    /\ Cardinality({i \in Workers : cstate[i] \in {"running", "zombie"}}) <= 1
    /\ \A i \in Workers :
          cstate[i] \in {"running", "zombie"} =>
              /\ i = si
              /\ pcS \in {"spawn_out", "spawn_err", "join_out", "join_err", "wait"}
    /\ \A i \in 1..Len(headers) :
          i < Len(headers) => cstate[i] = "reaped"
    /\ (pcS \in {"loop", "spawn", "done"} /\ si > 1) =>
          /\ \A s \in Streams : CopyEnded(s)
          /\ \A i \in 1..(si - 1) : cstate[i] = "reaped"
    /\ pcS \in {"join_err", "wait"} => CopyEnded("stdout")
    /\ pcS = "wait" => CopyEnded("stderr")

\* the second header is out, the second spawn not yet made, the first child
\* collected
C8_Witness ==
    /\ pcS = "spawn"
    /\ si = 2
    /\ headers = paths
    /\ Len(attempts) = 1
    /\ cstate[1] = "reaped"
    /\ ccode[1] = 1

\* C9: with pipes of bounded capacity and a child that writes a finite
\* sequence of chunks to its two streams in any order and exits, the runner
\* never deadlocks: as long as serial_run has not returned some step can be
\* taken; a passthrough thread reaches end-of-file only with its pipe drained
\* and the child gone; and with every thread scheduled serial_run returns.
C9_NoPipeDeadlock ==
    /\ [](~SerEnded => ENABLED NextSer)
    /\ [](\A s \in Streams :
            tcopy[s] = "eof" => pipe[s] = 0 /\ ~rdOpen[s] /\ ~ChildRunning)
    /\ [](pcS = "wait" /\ (\A s \in Streams : tcopy[s] = "eof")
            => WaitReturns(si))
    /\ <>SerEnded

\* the child has filled the stderr pipe and is blocked on its next write to
\* it, stdout is still open and empty, and both threads are copying
C9_Witness ==
    /\ pcS = "join_out"
    /\ ChildRunning
    /\ script /= <<>>
    /\ Head(script) = "stderr"
    /\ pipe["stderr"] = PipeCap
    /\ pipe["stdout"] = 0
    /\ \A s \in Streams : tcopy[s] = "copying" /\ rdOpen[s]

\* C10: when serial_run returns without a terminal error, whatever happened
\* to the children (an exit code other than 0, a spawn that failed), every
\* active path has had its header printed and its spawn attempted, in order.
C10_EveryTargetAttempted ==
    (pcS \in {"done", "failed"} /\ serErr /= "io") =>
        /\ headers = paths
        /\ attempts = paths

(***************************************************************************)
(* Properties of the interactive selector                                  *)
(***************************************************************************)
Max2(a, b) == IF a > b THEN a ELSE b

\* context_ui has got past the empty-list return
SelectorOpen == pcX \notin {"entry", "none_registered"}

\* the step reads event ev and handles it, whether or not the redraw that
\* follows succeeds
Handles(ev) == CtxEvent(ev) \/ CtxRedrawError(ev)

\* C11: the cursor starts at 0 and, whatever events have been read, stays
\* within 0 <= cursor < count, count being the number of registered
\* entries; the entry space toggles is therefore always an entry of the list.
C11_CursorInBounds ==
    SelectorOpen =>
        /\ 0 <= selected
        /\ selected < Len(repositories)
        /\ selected + 1 \in DOMAIN repositories
        /\ (event = "none" => selected = 0)

\* space was pressed on the last entry of a list of several entries
C11_Witness ==
    /\ pcX = "loop"
    /\ event = " "
    /\ selected > 0
    /\ selected = Len(repositories) - 1

C13_SpaceTogglesOneEntry ==
    /\ [][Handles(" ") =>
            /\ selected' = selected
            /\ DOMAIN repositories' = DOMAIN repositories
            /\ \A i \in DOMAIN repositories :
                /\ repositories'[i].path = repositories[i].path
                /\ repositories'[i].visible =
                      IF i = selected + 1
                      THEN ~repositories[i].visible
                      ELSE repositories[i].visible
         ]_vars
    /\ [](spaces.count = 2 => repositories = spaces.list)

\* space was pressed twice on an entry that is not the first, in a list
\* whose flags differ
C13_Witness ==
    /\ pcX = "loop"
    /\ event = " "
    /\ spaces.count = 2
    /\ selected > 0
    /\ \E i, j \in DOMAIN repositories :
        repositories[i].visible /= repositories[j].visible

\* C14: '+' makes every entry visible and '-' makes every entry hidden,
\* whatever the flags were; doing it again changes nothing; the cursor
\* stays where it was.
C14_PlusMinusSetAll ==
    [][/\ Handles("+") =>
            /\ selected' = selected
            /\ DOMAIN repositories' = DOMAIN repositories
            /\ \A i \in DOMAIN repositories :
                /\ repositories'[i].path = repositories[i].path
                /\ repositories'[i].visible
            /\ NextRepos("+", repositories', selected') = repositories'
       /\ Handles("-") =>
            /\ selected' = selected
            /\ DOMAIN repositories' = DOMAIN repositories
            /\ \A i \in DOMAIN repositories :
                /\ repositories'[i].path = repositories[i].path
                /\ ~repositories'[i].visible
            /\ NextRepos("-", repositories', selected') = repositories'
      ]_vars

\* '-' was pressed with the cursor moved off the first entry: no entry is
\* visible, the indicator counts 0 selected
C14_Witness ==
    /\ pcX = "loop"
    /\ event = "-"
    /\ selected > 0
    /\ Len(repositories) > 1
    /\ \A i \in DOMAIN repositories : ~repositories[i].visible
    /\ screen.info.counts[1] = 0

\* the least k with k * d >= n
CeilDiv(n, d) == CHOOSE k \in 0..n : k * d >= n /\ (k - 1) * d < n

\* the q with q * d <= i < (q + 1) * d
FloorDiv(i, d) == CHOOSE q \in 0..i : q * d <= i /\ i < (q + 1) * d

\* the selector has drawn the page of the current cursor
ScreenCurrent == screen.drawn /\ pcX /= "failed"

\* C15: with page size P >= 1 and n >= 1 entries, the page count shown is
\* ceil(n / P), entry i is drawn on page floor(i / P), the selected page is
\* in [0, pageCount), and the page indicator is drawn only when there is
\* more than one page.
C15_Pagination ==
    ScreenCurrent =>
        LET n == Len(repositories)
            P == page_size
            pageCount == CeilDiv(n, P)
            page == FloorDiv(selected, P)
            info == screen.info
        IN  /\ P >= 1
            /\ n >= 1
            /\ PageCount(n, P) = pageCount
            /\ 0 <= page /\ page < pageCount
            /\ (info.dots /= <<>>) = (pageCount > 1)
            /\ (info.label /= <<>>) = (pageCount > 1)
            /\ pageCount > 1 =>
                /\ Len(info.dots) = pageCount
                /\ info.label = <<page + 1, pageCount>>
                /\ \A d \in DOMAIN info.dots : info.dots[d] = (d = page + 1)
            /\ \A r \in DOMAIN screen.list.rows :
                FloorDiv(screen.list.rows[r].index, P) = page
            /\ \A i \in 0..(n - 1) :
                (FloorDiv(i, P) = page) =
                    (\E r \in DOMAIN screen.list.rows :
                        screen.list.rows[r].index = i)

\* four entries on pages of three: the cursor is on the second of two pages
C15_Witness ==
    /\ pcX = "loop"
    /\ screen.drawn
    /\ Len(repositories) = 4
    /\ page_size = 3
    /\ selected = 3
    /\ screen.info.label = <<2, 2>>
    /\ Len(screen.list.rows) = 1

\* C16: once the event loop has been left, by Enter or by an error of
\* event::read, of queueing output or of the flush, raw input mode is off
\* and the cursor is shown.
C16_TerminalRestoredOnExit ==
    pcX \in {"wrap", "write", "done", "failed"} =>
        /\ ~rawMode
        /\ ~cursorHidden

(***************************************************************************)
(* Properties of queue_table                                               *)
(***************************************************************************)
\* the codepoints of a cell, span after span
RECURSIVE Flatten(_)
Flatten(cell) == IF cell = <<>> THEN <<>> ELSE Head(cell) \o Flatten(Tail(cell))

\* the visible length of what has been queued for a row
RECURSIVE VisibleLen(_)
VisibleLen(cells) ==
    IF cells = <<>> THEN 0
    ELSE Len(Head(cells).text) + Head(cells).padding + VisibleLen(Tail(cells))

\* the position the allotted widths of the queued cells add up to
RECURSIVE AllottedLen(_)
AllottedLen(cells) ==
    IF cells = <<>> THEN 0 ELSE Head(cells).width + AllottedLen(Tail(cells))

\* the full spans of the first k columns
RECURSIVE SpanOfColumns(_)
SpanOfColumns(k) ==
    IF k = 0 THEN 0 ELSE col_widths[k] + CELL_SPACING + SpanOfColumns(k - 1)

\* what has been queued for row r: a finished line, or the line in progress
Queued(r) == IF r \in DOMAIN lines THEN lines[r] ELSE line

\* the rows something may have been queued for
RowsBegun ==
    IF pcT = "entry" THEN {}
    ELSE {r \in DOMAIN table.rows : r <= row}

\* C17: a cell whose visible length L exceeds the width W >= 3 allotted to it
\* is rendered as exactly W columns: the first W-1 codepoints of the cell,
\* then one ellipsis, no later span and no padding.
C17_TruncatedCellFillsWidth ==
    \A r \in RowsBegun : \A s \in DOMAIN Queued(r) :
        LET seg == Queued(r)[s]
            cell == table.rows[r][seg.col]
            W == seg.width
        IN  (CellLen(cell) > W /\ W >= MIN_COL_WIDTH) =>
                /\ seg.text = Append(SubSeq(Flatten(cell), 1, W - 1), Ellipsis)
                /\ Len(seg.text) = W
                /\ seg.padding = 0

\* C18: every line queue_table renders, whatever the rows, the spans and the
\* target width, has a visible length of at most the table's width.
C18_LinesFitWidth ==
    \A r \in RowsBegun : VisibleLen(Queued(r)) <= table.width

\* C19: the column count is the longest row's length; a row of k cells
\* renders its own k columns at most, in order, and nothing, text or
\* padding, for column k+1 and above; no cell that the row lacks is read.
C19_RaggedRowsRenderOwnCells ==
    pcT /= "entry" =>
        /\ \A r \in DOMAIN table.rows : Len(table.rows[r]) <= Len(col_widths)
        /\ \/ \E r \in DOMAIN table.rows : Len(table.rows[r]) = Len(col_widths)
           \/ table.rows = <<>> /\ col_widths = <<>>
        /\ row \in DOMAIN table.rows => col <= Len(table.rows[row]) + 1
        /\ \A r \in RowsBegun :
            /\ Len(Queued(r)) <= Len(table.rows[r])
            /\ \A s \in DOMAIN Queued(r) : Queued(r)[s].col = s
            /\ VisibleLen(Queued(r)) <= SpanOfColumns(Len(table.rows[r]))

\* a two-column row and a one-column row, both rendered in full: the short
\* row's line is its one cell, padded to the end of its own column
C19_Witness ==
    /\ pcT = "done"
    /\ Len(table.rows) = 2
    /\ Len(table.rows[1]) = 2
    /\ Len(table.rows[2]) = 1
    /\ Len(lines[1]) = 2
    /\ Len(lines[2]) = 1
    /\ lines[1][2].text /= <<>>
    /\ lines[2][1].text /= <<>>
    /\ lines[2][1].padding = CELL_SPACING

VisibleIndexes == {k \in DOMAIN repositories : repositories[k].visible}

\* the position of the n-th entry whose flag is true
NthVisible(n) ==
    CHOOSE k \in VisibleIndexes :
        Cardinality({j \in VisibleIndexes : j <= k}) = n

\* parallel_run has left its spawn loop
SpawnLoopDone == pcC \notin {"entry", "none_registered", "start", "spawn"}

\* C21: both runners start processes for the entries whose flag is true and
\* for no other: the n-th process started is for the n-th visible entry of
\* the list, each started once.  parallel_run starts its threads in that
\* order, one per step of the spawn loop, has one for every visible entry
\* when the loop is left, and a thread runs and reports its own entry once;
\* serial_run's spawns are, in order, the visible entries, all of them when
\* it returns Ok.
C21_OnlyVisibleEntriesRun ==
    /\ [](Len(paths) = Cardinality(VisibleIndexes))
    /\ [](\A n \in 1..Len(paths) : paths[n] = repositories[NthVisible(n)].path)
    /\ [](/\ spawned <= Len(paths)
          /\ \A i \in Workers : wpc[i] /= "unspawned" <=> i <= spawned
          /\ SpawnLoopDone => spawned = Len(paths)
          /\ \A i \in Workers :
                /\ Len(sent[i]) <= 1
                /\ \A k \in 1..Len(sent[i]) :
                      sent[i][k][1] = repositories[NthVisible(i)].path)
    /\ [](/\ Len(attempts) <= Len(paths)
          /\ \A n \in 1..Len(attempts) :
                attempts[n] = repositories[NthVisible(n)].path
          /\ pcS = "done" => Len(attempts) = Len(paths))
    /\ [][/\ \A i \in Workers :
               /\ wpc'[i] = "running" /\ wpc[i] /= "running" =>
                     /\ wpc[i] = "unspawned"
                     /\ i = spawned + 1
                     /\ spawned' = i
               /\ wpc[i] /= "unspawned" => wpc'[i] /= "unspawned"
               /\ wpc'[i] = "exited" /\ wpc[i] /= "exited" => wpc[i] = "running"
          /\ attempts' /= attempts =>
               /\ Len(attempts) < Len(paths)
               /\ attempts' = Append(attempts,
                                repositories[NthVisible(Len(attempts) + 1)].path)
          /\ repositories' = repositories]_vars

\* a hidden entry comes before a visible one: the only thread of parallel_run
\* is the visible entry's and its child has run
C21_Witness ==
    /\ cmd = "parallel"
    /\ Len(repositories) = 2
    /\ ~repositories[1].visible
    /\ repositories[2].visible
    /\ SpawnLoopDone
    /\ spawned = 1
    /\ wpc[1] = "sent"
    /\ wpc[2] = "unspawned"
    /\ sent[1][1][1] = repositories[2].path

(***************************************************************************)
(* Properties of the repository list operations                            *)
(***************************************************************************)
PathsOf(repos) == {repos[k].path : k \in DOMAIN repos}

NoDuplicates(repos) ==
    \A j, k \in DOMAIN repos : repos[j].path = repos[k].path => j = k

\* the positions of repos that hold another path than repo_path
Others(repos, repo_path) == {k \in DOMAIN repos : repos[k].path /= repo_path}

\* the n-th of those positions
NthOther(repos, repo_path, n) ==
    CHOOSE k \in Others(repos, repo_path) :
        Cardinality({j \in Others(repos, repo_path) : j <= k}) = n

\* C22: add_repo(p) on a list that has p returns false and changes nothing,
\* otherwise it returns true and the list is the old one with [p, visible]
\* appended; remove_repo(p) on a list without p returns false and changes
\* nothing, otherwise it returns true and the list is the old one without
\* its entries for p, the others in their order with their flags; and
\* neither call takes a list without a repeated path to one with a repeated
\* path.
C22_AddRemoveContract ==
    [][/\ \A p \in RegPaths :
            AddRepo(p) =>
                IF p \in PathsOf(repositories)
                THEN call'.ret = FALSE /\ repositories' = repositories
                ELSE /\ call'.ret = TRUE
                     /\ Len(repositories') = Len(repositories) + 1
                     /\ \A k \in DOMAIN repositories :
                           repositories'[k] = repositories[k]
                     /\ repositories'[Len(repositories')] =
                           [path |-> p, visible |-> TRUE]
       /\ \A p \in RegPaths :
            RemoveRepo(p) =>
                IF p \notin PathsOf(repositories)
                THEN call'.ret = FALSE /\ repositories' = repositories
                ELSE /\ call'.ret = TRUE
                     /\ p \notin PathsOf(repositories')
                     /\ Len(repositories') =
                           Cardinality(Others(repositories, p))
                     /\ \A n \in DOMAIN repositories' :
                           repositories'[n] =
                              repositories[NthOther(repositories, p, n)]
       /\ NoDuplicates(repositories) => NoDuplicates(repositories')]_vars

\* remove_repo has taken the middle entry out of a list of three different
\* paths, the first of them hidden
C22_Witness ==
    /\ call.op = "remove_repo"
    /\ call.ret
    /\ Len(call.before) = 3
    /\ NoDuplicates(call.before)
    /\ call.before[2].path = call.path
    /\ ~call.before[1].visible
    /\ repositories = <<call.before[1], call.before[3]>>

(***************************************************************************)
(* Properties of the status map                                            *)
(***************************************************************************)
\* C23: an entry of the status map is created as Running by the start of
\* parallel_run and by nothing else, is never removed, and changes only from
\* Running to Finished or from Running to Error: an entry that is Finished
\* or Error is the same after every later step, whatever is received, also
\* when the list of active paths has a path more than once.
C23_StatusChangesOnce ==
    [][/\ \A p \in DOMAIN results : p \in DOMAIN results'
       /\ \A p \in DOMAIN results' :
            IF p \in DOMAIN results
            THEN \/ results'[p] = results[p]
                 \/ /\ results[p] = Running
                    /\ results'[p].tag \in {"Finished", "Error"}
            ELSE results'[p] = Running]_vars

\* a step of some worker thread
WorkerStep == \E i \in Workers : WorkerOutput(i) \/ WorkerSend(i) \/ WorkerEnd(i)

\* C24: only the main thread writes the status map.  A step of a worker
\* thread leaves the map as it is; what it changes of the shared state is the
\* channel, by at most one message appended, and a worker sends once at
\* most.  The map changes only when parallel_run creates it and when the
\* polling loop receives a message, and then the entry that changes is the
\* one of the path in the message received, which gets the status in it.
C24_OnlyConsumerWritesMap ==
    [][/\ WorkerStep =>
            /\ results' = results
            /\ \/ chan' = chan
               \/ \E i \in Workers :
                     /\ chan' = Append(chan, <<paths[i], wres[i]>>)
                     /\ sent[i] = <<>>
                     /\ sent'[i] = <<<<paths[i], wres[i]>>>>
       /\ results' /= results => ParStart \/ ParRecv
       /\ \A p \in DOMAIN results :
            (p \in DOMAIN results' /\ results'[p] /= results[p]) =>
                /\ ParRecv
                /\ Head(chan)[1] = p
                /\ results'[p] = Head(chan)[2]]_vars

\* the result of the second path has been stored while the thread of the
\* first, another path, has its result and has not sent it yet
C24_Witness ==
    /\ Len(paths) = 2
    /\ paths[1] /= paths[2]
    /\ wpc[1] = "exited"
    /\ wpc[2] = "ended"
    /\ arrived = <<paths[2]>>
    /\ results[paths[2]].tag = "Finished"
    /\ results[paths[1]] = Running

(***************************************************************************)
(* Properties of the full-mode progress block                              *)
(***************************************************************************)
\* a step that queues the full block
FullDraw == ~compact /\ (ParFirstDraw \/ ParTimeout \/ ParFinalRender)

\* C25: in full mode every draw writes as many lines as there are active
\* paths, line i for path i with the glyph of its status; the initial draw
\* moves the cursor nowhere first and every later one (a tick, the final
\* render) moves it up by the number of active paths first, so that after
\* every draw the cursor is that many lines below the first line of the
\* block, where the initial draw left it; no other step draws the block.
C25_FullBlockNeverGrows ==
    /\ [](frame.mode = "full" =>
            /\ ~compact
            /\ Len(frame.lines) = Len(paths)
            /\ \A i \in 1..Len(paths) : frame.lines[i].path = paths[i]
            /\ frame.up \in {0, Len(paths)}
            /\ frame.row = Len(paths))
    /\ [][FullDraw =>
            /\ frame'.mode = "full"
            /\ Len(frame'.lines) = Len(paths)
            /\ \A i \in 1..Len(paths) :
                  frame'.lines[i] =
                     [glyph |-> Glyph(results[paths[i]], spinner_index),
                      path |-> paths[i]]
            /\ frame'.up = IF pcC = "first_draw" THEN 0 ELSE Len(paths)
            /\ frame'.row = Len(paths)
            /\ pcC /= "first_draw" => frame.mode = "full" /\ frame'.row = frame.row]_vars
    /\ [][~(ParFirstDraw \/ ParTimeout \/ ParFinalRender) =>
            /\ frame'.mode = frame.mode
            /\ frame.mode = "full" =>
                  /\ frame'.up = frame.up
                  /\ frame'.row = frame.row
                  /\ Len(frame'.lines) = Len(frame.lines)]_vars

\* the final render of a block of two lines, one target finished and one
\* failed, after at least one tick
C25_Witness ==
    /\ pcC = "report"
    /\ frame.mode = "full"
    /\ Len(frame.lines) = 2
    /\ frame.up = 2
    /\ frame.row = 2
    /\ frame.lines[1].glyph = "check"
    /\ frame.lines[2].glyph = "X"
    /\ spinner_index > 0

(***************************************************************************)
(* Properties of the selector's redraw                                     *)
(***************************************************************************)
\* C26: the redraw after an event other than Enter queues
\* cursor::MoveUp(page_size + 1) and then page_size + 1 lines: the page
\* indicator, a row for each entry of the slice that starts at
\* page * page_size and ends before min(page * page_size + page_size, count),
\* page being cursor / page_size, showing that entry's path and flag, and
\* blank lines for the rest of the page.  The cursor is in the slice and
\* the one highlighted row is the cursor's.
C26_RedrawKeepsPageHeight ==
    [][\A ev \in Events :
         CtxEvent(ev) =>
            LET count == Len(repositories')
                page == selected' \div page_size
                lo == page * page_size
                hi == Min2(lo + page_size, count)
                rows == screen'.list.rows
            IN  /\ screen'.up = page_size + 1
                /\ screen'.list.blanks >= 0
                /\ 1 + Len(rows) + screen'.list.blanks = page_size + 1
                /\ Len(rows) = hi - lo
                /\ \A i \in 1..Len(rows) :
                      /\ rows[i].index = lo + i - 1
                      /\ rows[i].path = repositories'[lo + i].path
                      /\ rows[i].checked = repositories'[lo + i].visible
                /\ lo <= selected'
                /\ selected' < hi
                /\ {i \in 1..Len(rows) : rows[i].highlighted}
                      = {selected' - lo + 1}]_vars

\* four entries on pages of three: 'l' has moved the cursor to the last
\* entry, alone on the second page, which is drawn with two blank lines
C26_Witness ==
    /\ pcX = "loop"
    /\ event = "l"
    /\ Len(repositories) = 4
    /\ page_size = 3
    /\ selected = 3
    /\ screen.drawn
    /\ screen.up = 4
    /\ Len(screen.list.rows) = 1
    /\ screen.list.rows[1].highlighted
    /\ screen.list.blanks = 2

(***************************************************************************)
(* Properties of the selector's page size                                  *)
(***************************************************************************)
\* context_ui is where it draws, reads events or restores and saves
DrawsOrLoops ==
    pcX \in {"first_draw", "hide", "raw", "loop", "restore_raw", "show",
             "wrap", "write", "done"}

\* C27: wherever context_ui draws or event_loop runs, and whenever something
\* has been drawn, 1 <= page_size <= count, so that count - 1 and the
\* divisions by page_size are defined; the page has at least 3 rows unless
\* the list is shorter.  With an empty list context_ui returns before it
\* asks for the size; where it has returned for an empty list or a terminal
\* too small it has drawn nothing and saved nothing, and it does nothing
\* more; nothing is saved without a draw.
C27_PageSizeInRange ==
    /\ [](DrawsOrLoops \/ screen.drawn =>
            /\ 1 <= page_size
            /\ page_size <= Len(repositories))
    /\ [](Len(repositories) = 0 => pcX \in {"entry", "none_registered"})
    /\ [](pcX \in {"none_registered", "too_small"} =>
            /\ ~screen.drawn
            /\ ~saved.written
            /\ page_size = 0)
    /\ [](saved.written => screen.drawn)
    /\ [][pcX \notin {"none_registered", "too_small"}]_vars
    /\ [][pcX = "size" /\ pcX' = "first_draw" =>
            page_size' >= Min2(Len(repositories), 3)]_vars

\* one entry on the smallest terminal the selector opens on: after an
\* event the page of one row has been redrawn, PageCount dividing 0 by 1
C27_Witness ==
    /\ pcX = "loop"
    /\ Len(repositories) = 1
    /\ page_size = 1
    /\ event = "j"
    /\ selected = 0
    /\ screen.drawn
    /\ screen.up = 2

(***************************************************************************)
(* Properties of queue_table's arithmetic                                  *)
(***************************************************************************)
\* C28: no subtraction of queue_table underflows.  At every cell the inner
\* loop comes to, pos <= cell_end_pos <= width, so that cell_width
\* (line 67) is defined; in a cell that is rendered, no span is longer than
\* a remaining_space of 0, so that `remaining_space - 1` (line 81) is
\* computed from 1 or more only, also after an earlier span of the cell has
\* filled the cell's width; and queue_table never panics.
C28_NoSubtractionUnderflows ==
    /\ TblAtCell =>
          /\ pos <= CellEndPos(col, pos)
          /\ CellEndPos(col, pos) <= table.width
    /\ (TblAtCell /\ ~Stops(col, pos)) => ~TblRendered.underflow
    /\ tblErr /= "panic"

(***************************************************************************)
(* Properties of what the selector does to the list                        *)
(***************************************************************************)
PathSeq(repos) == [k \in DOMAIN repos |-> repos[k].path]

PathLists == UNION {[1..n -> Paths] : n \in 0..MaxEntries}

\* C29: of the configuration the selector changes the flags only.  An event
\* that is not '+', '-' or space (a navigation key, Enter, a key that is not
\* matched, an event that is not a key) leaves the list as it is, flags
\* included; no step of context_ui changes the number of entries, their
\* paths or their order; and the list handed to config.write has the paths
\* of the list that was loaded, in the same order.
C29_SelectorKeepsEntries ==
    /\ [][\A ev \in Events \ {"+", "-", " "} :
            Handles(ev) => repositories' = repositories]_vars
    /\ [][repositories' /= repositories =>
            \E ev \in {"+", "-", " "} : Handles(ev)]_vars
    /\ [][PathSeq(repositories') = PathSeq(repositories)]_vars
    /\ [](saved.written => saved.repositories = repositories)
    /\ \A loaded \in PathLists :
          PathSeq(repositories) = loaded =>
              [](saved.written => PathSeq(saved.repositories) = loaded)

\* a list of three entries has been saved after the flag of its second
\* entry was changed and the cursor moved on to the third
C29_Witness ==
    /\ pcX = "done"
    /\ saved.written
    /\ Len(saved.repositories) = 3
    /\ selected = 2
    /\ saved.repositories[1].visible
    /\ ~saved.repositories[2].visible
    /\ saved.repositories[1].path /= saved.repositories[2].path

====
